---- MODULE Spec2Model ----
(***************************************************************************)
(* Model of src/index.js: the two HTTP handlers /create-story and          *)
(* /create-story-audio and the generation pipeline behind them             *)
(* (crearCuentoEImagenesSecuencia, generarPromptsSecuenciales,             *)
(* generarAudioDeCuento, sleep).  Every await of the source is a           *)
(* suspension point; an action is the code that runs between two of them.  *)
(***************************************************************************)
EXTENDS Integers, Sequences, FiniteSets, TLC

(***************************************************************************)
(* Bounds of the model.                                                    *)
(***************************************************************************)
\* Date.now() takes the values 0..MaxClock.
MaxClock == 1
\* The longest array a scene-prompt response text holds.
MaxArray == 4

(***************************************************************************)
(* JavaScript values.                                                      *)
(***************************************************************************)
Undefined == [t |-> "undefined"]
Null == [t |-> "null"]
\* A string is a sequence of characters.
Str(s) == [t |-> "string", s |-> s]
Arr(a) == [t |-> "array", a |-> a]

\* ToBoolean: undefined, null and "" are falsy; objects and arrays are truthy.
Truthy(v) ==
    CASE v.t = "undefined" -> FALSE
      [] v.t = "null" -> FALSE
      [] v.t = "string" -> v.s # <<>>
      [] OTHER -> TRUE

(***************************************************************************)
(* What the remote capability (genAI ... generateContent) can produce.     *)
(* An outcome is a rejection, or a result whose .response is undefined or  *)
(* an object with .candidates; a candidate has .content (possibly          *)
(* undefined) with .parts; a part has .text and .inlineData.               *)
(***************************************************************************)
Rejects == [t |-> "rejects"]
Resolves(response) == [t |-> "resolves", response |-> response]
Response(candidates) == [t |-> "object", candidates |-> candidates]
Candidate(content) == [t |-> "object", content |-> content]
Content(parts) == [t |-> "object", parts |-> parts]
TextPart(text) == [t |-> "object", text |-> text, inlineData |-> Undefined]
InlinePart(mimeType, data) ==
    [t |-> "object", text |-> Undefined,
     inlineData |-> [t |-> "object", mimeType |-> mimeType, data |-> data]]
\* A response with one candidate holding the given parts.
WithParts(parts) == Response(Arr(<<Candidate(Content(parts))>>))

\* The values every generation call can produce whatever its modality.
CommonOutcomes ==
    { Rejects,
      Resolves(Undefined),
      Resolves(Response(Undefined)),
      Resolves(Response(Arr(<<>>))),
      Resolves(Response(Arr(<<Candidate(Undefined)>>))),
      Resolves(WithParts(<<>>)) }

\* response && response.candidates && response.candidates.length > 0
HasCandidates(response) ==
    /\ Truthy(response)
    /\ Truthy(response.candidates)
    /\ Len(response.candidates.a) > 0

\* candidates[0].content.parts raises a TypeError when content is undefined.
PartsThrows(response) == response.candidates.a[1].content.t = "undefined"
FirstParts(response) == response.candidates.a[1].content.parts

(***************************************************************************)
(* String operations used by generarPromptsSecuenciales (line 171).        *)
(* A string is a sequence of one-character strings.                        *)
(***************************************************************************)
Max(a, b) == IF a >= b THEN a ELSE b

\* String.prototype.indexOf(c): 0-based index of the first c, or -1.
IndexOf(s, c) ==
    IF \E k \in 1..Len(s) : s[k] = c
    THEN (CHOOSE k \in 1..Len(s) : s[k] = c /\ \A m \in 1..(k - 1) : s[m] # c) - 1
    ELSE -1

\* String.prototype.substring(start): a negative start counts as 0.
Substring(s, start) == SubSeq(s, Max(start, 0) + 1, Len(s))

\* String.prototype.substring(start, end), clamped to the string.
Substring2(s, start, end) ==
    SubSeq(s, Max(start, 0) + 1, IF end > Len(s) THEN Len(s) ELSE end)

StartsWith(s, p) == Len(s) >= Len(p) /\ SubSeq(s, 1, Len(p)) = p

\* The backquote character (a TLA+ string cannot hold it).
Backquote == "BQ"
Fence == <<Backquote, Backquote, Backquote>>
FenceJson == Fence \o <<"j", "s", "o", "n">>

\* ReplaceFences with the first alternative of the pattern only.
RECURSIVE ReplaceFencesJsonOnly(_)
ReplaceFencesJsonOnly(s) ==
    IF s = <<>> THEN <<>>
    ELSE IF StartsWith(s, FenceJson) THEN ReplaceFencesJsonOnly(SubSeq(s, 8, Len(s)))
    ELSE <<Head(s)>> \o ReplaceFencesJsonOnly(Tail(s))

\* The global replace of line 171 (a fence followed by json, or a bare fence,
\* becomes the empty string): left to right, the longer alternative first.
RECURSIVE ReplaceFences(_)
ReplaceFences(s) ==
    IF s = <<>> THEN <<>>
    ELSE IF StartsWith(s, FenceJson) THEN ReplaceFences(SubSeq(s, 8, Len(s)))
    ELSE IF StartsWith(s, Fence) THEN ReplaceFences(SubSeq(s, 4, Len(s)))
    ELSE <<Head(s)>> \o ReplaceFences(Tail(s))

WhiteSpace == {" ", "\n"}

RECURSIVE TrimStart(_)
TrimStart(s) ==
    IF s # <<>> /\ Head(s) \in WhiteSpace THEN TrimStart(Tail(s)) ELSE s

RECURSIVE TrimEnd(_)
TrimEnd(s) ==
    IF s # <<>> /\ s[Len(s)] \in WhiteSpace
    THEN TrimEnd(SubSeq(s, 1, Len(s) - 1)) ELSE s

\* String.prototype.trim()
Trim(s) == TrimEnd(TrimStart(s))

(***************************************************************************)
(* JSON.parse on texts over the characters used below: arrays, strings     *)
(* without escapes and non-negative integers.  The result is               *)
(* [ok, val, rest]; ok = FALSE is the SyntaxError.                         *)
(***************************************************************************)
Digits == {"0", "1", "2", "3", "4", "5", "6", "7", "8", "9"}
DigitVal(c) ==
    CASE c = "0" -> 0 [] c = "1" -> 1 [] c = "2" -> 2 [] c = "3" -> 3
      [] c = "4" -> 4 [] c = "5" -> 5 [] c = "6" -> 6 [] c = "7" -> 7
      [] c = "8" -> 8 [] c = "9" -> 9

Num(n) == [t |-> "number", n |-> n]
SyntaxError == [ok |-> FALSE, val |-> Undefined, rest |-> <<>>]
Parsed(val, rest) == [ok |-> TRUE, val |-> val, rest |-> rest]

\* The characters of a string literal after its opening quote.
RECURSIVE ParseStringBody(_, _)
ParseStringBody(s, acc) ==
    IF s = <<>> THEN SyntaxError
    ELSE IF Head(s) = "\"" THEN Parsed(Str(acc), Tail(s))
    ELSE IF Head(s) = "\n" THEN SyntaxError
    ELSE ParseStringBody(Tail(s), Append(acc, Head(s)))

\* The digits of a number after its first digit.
RECURSIVE ParseDigits(_, _)
ParseDigits(s, n) ==
    IF s # <<>> /\ Head(s) \in Digits
    THEN ParseDigits(Tail(s), 10 * n + DigitVal(Head(s)))
    ELSE Parsed(Num(n), s)

RECURSIVE ParseValue(_)
RECURSIVE ParseElements(_, _)

\* One JSON value, leading white space skipped.
ParseValue(s0) ==
    LET s == TrimStart(s0) IN
    IF s = <<>> THEN SyntaxError
    ELSE IF Head(s) = "\"" THEN ParseStringBody(Tail(s), <<>>)
    ELSE IF Head(s) = "0" THEN Parsed(Num(0), Tail(s))
    ELSE IF Head(s) \in Digits THEN ParseDigits(Tail(s), DigitVal(Head(s)))
    ELSE IF Head(s) = "["
         THEN LET r == TrimStart(Tail(s)) IN
              IF r # <<>> /\ Head(r) = "]" THEN Parsed(Arr(<<>>), Tail(r))
              ELSE ParseElements(r, <<>>)
    ELSE SyntaxError

\* The elements of a non-empty array, up to and including its "]".
ParseElements(s, acc) ==
    LET e == ParseValue(s) IN
    IF ~e.ok THEN SyntaxError
    ELSE LET r == TrimStart(e.rest) IN
         IF r = <<>> THEN SyntaxError
         ELSE IF Head(r) = "," THEN ParseElements(Tail(r), Append(acc, e.val))
         ELSE IF Head(r) = "]" THEN Parsed(Arr(Append(acc, e.val)), Tail(r))
         ELSE SyntaxError

\* JSON.parse(text): one value and nothing but white space after it.
JSONParse(text) ==
    LET v == ParseValue(text) IN
    IF v.ok /\ TrimStart(v.rest) = <<>> THEN v ELSE SyntaxError

\* Line 171: the text from its first "[" on, fences removed, trimmed.
CleanedText(jsonText) ==
    Trim(ReplaceFences(Substring(jsonText, IndexOf(jsonText, "["))))

\* Array.prototype.slice(0, n) for n >= 0.
Slice(a, n) == SubSeq(a, 1, IF n > Len(a) THEN Len(a) ELSE n)

(***************************************************************************)
(* The response texts the scene-prompt call is given.                      *)
(***************************************************************************)
Letters == <<"a", "b", "c", "d", "e", "f">>
Quoted(k) == <<"\"", Letters[k], "\"">>

RECURSIVE ArrayBody(_)
ArrayBody(n) ==
    IF n = 0 THEN <<>>
    ELSE IF n = 1 THEN Quoted(1)
    ELSE ArrayBody(n - 1) \o <<",">> \o Quoted(n)

\* The text ["a","b",...] with n elements.
ArrayText(n) == <<"[">> \o ArrayBody(n) \o <<"]">>
\* The same array inside a markdown code fence.
Fenced(n) == FenceJson \o <<"\n">> \o ArrayText(n) \o <<"\n">> \o Fence

ScenePromptTexts ==
    { ArrayText(n) : n \in 0..MaxArray }
    \cup { Fenced(n) : n \in {0, MaxArray - 1, MaxArray} }
    \cup { <<"n", "o">>,                               \* prose, no "["
           <<"o", "k", ":", " ">> \o ArrayText(2),     \* prose, then the array
           <<"x", "[", "1", "]", " ">> \o Fenced(2),   \* a "[" before the array
           <<"o", "k", ":", "\n">> \o Fenced(2),      \* prose, then the fence
           ArrayText(1) \o <<" ", "f", "i", "n">>,     \* prose after the array
           <<"[", "\"", "a", "\"", ",">>,              \* a truncated array
           Quoted(1),                                  \* JSON, but no array
           <<>> }

(***************************************************************************)
(* Program constants and the inputs of the model.                          *)
(***************************************************************************)
\* const maxAttempts = 5 (lines 63, 155, 205)
maxAttempts == 5

\* sleepDelay with the attempt as a factor and not as an exponent.
sleepDelayLinear(attempt, jitter) == 2 * attempt * 1000 + jitter

\* Line 49: Math.pow(2, attempt) * 1000 + Math.floor(Math.random() * 1000),
\* with jitter the value of the floor, 0..999.
sleepDelay(attempt, jitter) == (2 ^ attempt) * 1000 + jitter

\* Line 49: the largest value of Math.floor(Math.random() * 1000).
MaxJitter == 999

\* The values of the floor the pipeline is run with: both ends of its range.
Jitters == {0, MaxJitter}

Routes == {"/create-story", "/create-story-audio"}

\* A query parameter is absent, empty or present.
ParamValues == {Undefined, Str(<<>>), Str(<<"p">>)}
Queries == [personaje : ParamValues, lugar : ParamValues, objeto : ParamValues]

\* Story texts: a generated story is a string of some length.
StoryLengths == {70, 160}
StoryText(n) == [k \in 1..n |-> Letters[(k % 6) + 1]]
Stories == { StoryText(n) : n \in StoryLengths }

StoryOutcomes ==
    CommonOutcomes
    \cup { Resolves(WithParts(<<TextPart(Str(<<>>))>>)),
           Resolves(WithParts(<<TextPart(Undefined)>>)) }
    \cup { Resolves(WithParts(<<TextPart(Str(s))>>)) : s \in Stories }

ScenePromptOutcomes ==
    CommonOutcomes
    \cup { Resolves(WithParts(<<TextPart(Undefined)>>)) }
    \cup { Resolves(WithParts(<<TextPart(Str(x))>>)) : x \in ScenePromptTexts }

Png == <<"image/", "png">>
Pcm == <<"audio/", "L16", ";", "codec=pcm", ";", "rate=", "2", "4", "0", "0", "0">>
ImageData == Str(<<"i", "V", "B", "O">>)
Pcm16k == <<"audio/", "L16", ";", "rate=", "1", "6", "0", "0", "0">>
\* The bytes 00 00 40: one sample and a byte left over.
AudioData == Str(<<"A", "A", "B", "A">>)
\* The bytes 00 00 00 40 (samples 0, 16384), 00 80 FF 7F (-32768, 32767)
\* and FF FF (-1).
AudioPayloads ==
    { Str(<<"A", "A", "A", "A", "Q", "A", "=", "=">>),
      Str(<<"A", "I", "D", "/", "f", "w", "=", "=">>),
      Str(<<"/", "/", "8", "=">>) }

ImageOutcomes ==
    CommonOutcomes
    \cup { Resolves(WithParts(<<TextPart(Str(<<"o", "k">>))>>)),
           Resolves(WithParts(<<InlinePart(Str(Png), Str(<<>>))>>)),
           Resolves(WithParts(<<InlinePart(Str(Png), Str(<<>>)),
                                InlinePart(Str(Png), ImageData)>>)),
           Resolves(WithParts(<<InlinePart(Str(Png), ImageData)>>)),
           Resolves(WithParts(<<TextPart(Str(<<"o", "k">>)),
                                InlinePart(Str(Png), ImageData)>>)) }

AudioOutcomes ==
    CommonOutcomes
    \cup { Resolves(WithParts(<<TextPart(Str(<<"o", "k">>))>>)),
           Resolves(WithParts(<<InlinePart(Str(Png), ImageData)>>)),
           Resolves(WithParts(<<InlinePart(Str(<<"audio/", "wav">>), AudioData)>>)),
           Resolves(WithParts(<<InlinePart(Str(Pcm), AudioData)>>)),
           Resolves(WithParts(<<InlinePart(Str(Pcm16k), AudioData)>>)),
           Resolves(WithParts(<<InlinePart(Str(Png), ImageData),
                                InlinePart(Str(Pcm), AudioData)>>)) }
    \cup { Resolves(WithParts(<<InlinePart(Str(Pcm), data)>>)) : data \in AudioPayloads }

(***************************************************************************)
(* Helpers of the pipeline.                                                *)
(***************************************************************************)
\* parts.find(...): the first part at one of the positions, or undefined.
Find(parts, positions) ==
    IF positions = {} THEN Undefined
    ELSE parts[CHOOSE k \in positions : \A m \in positions : k <= m]

HasInlineData(p) == Truthy(p.inlineData)

\* Line 115: parts.find(p => p.inlineData)?.inlineData.data
imageDataOf(parts) ==
    LET p == Find(parts, {k \in 1..Len(parts) : HasInlineData(parts[k])}) IN
    IF p.t = "undefined" THEN Undefined ELSE p.inlineData.data

\* IsAudioPart without the test of the media type.
IsAudioPartAny(p) == Truthy(p.inlineData)

\* Line 252: p.inlineData && p.inlineData.mimeType.startsWith('audio/')
IsAudioPart(p) ==
    Truthy(p.inlineData) /\ StartsWith(p.inlineData.mimeType.s, <<"audio/">>)

\* Line 252: candidates[0].content.parts.find(...)
audioDataPartOf(parts) ==
    Find(parts, {k \in 1..Len(parts) : IsAudioPart(parts[k])})

\* The base64 alphabet, in the order of the 6-bit values 0..63.
Base64Alphabet ==
    << "A", "B", "C", "D", "E", "F", "G", "H", "I", "J", "K", "L", "M",
       "N", "O", "P", "Q", "R", "S", "T", "U", "V", "W", "X", "Y", "Z",
       "a", "b", "c", "d", "e", "f", "g", "h", "i", "j", "k", "l", "m",
       "n", "o", "p", "q", "r", "s", "t", "u", "v", "w", "x", "y", "z",
       "0", "1", "2", "3", "4", "5", "6", "7", "8", "9", "+", "/" >>

Base64Value(c) == (CHOOSE k \in 1..64 : Base64Alphabet[k] = c) - 1

\* The characters before the padding.
RECURSIVE Unpadded(_)
Unpadded(s) ==
    IF s # <<>> /\ s[Len(s)] = "=" THEN Unpadded(SubSeq(s, 1, Len(s) - 1)) ELSE s

\* Line 262: Buffer.from(audioData, 'base64'): four characters give three
\* bytes, a last group of three gives two and one of two gives one.
RECURSIVE Base64Bytes(_)
Base64Bytes(s) ==
    IF Len(s) < 2 THEN <<>>
    ELSE LET a == Base64Value(s[1])
             b == Base64Value(s[2])
             c == IF Len(s) >= 3 THEN Base64Value(s[3]) ELSE 0
             d == IF Len(s) >= 4 THEN Base64Value(s[4]) ELSE 0
             v == a * 262144 + b * 4096 + c * 64 + d
             three == << v \div 65536, (v \div 256) % 256, v % 256 >>
         IN IF Len(s) >= 4 THEN three \o Base64Bytes(SubSeq(s, 5, Len(s)))
            ELSE SubSeq(three, 1, Len(s) - 1)

Base64Decode(s) == Base64Bytes(Unpadded(s))

\* Int16LE reading the first byte as the high one.
Int16BE(lo, hi) ==
    LET u == hi + 256 * lo IN IF u >= 32768 THEN u - 65536 ELSE u

\* One element of the Int16Array of line 266: two bytes, low byte first, as
\* a signed 16-bit integer.
Int16LE(lo, hi) ==
    LET u == lo + 256 * hi IN IF u >= 32768 THEN u - 65536 ELSE u

\* Line 266: new Int16Array(buffer, byteOffset, byteLength / 2); the length
\* is truncated to an integer.
pcm16Of(pcmData) ==
    [k \in 1..(Len(pcmData) \div 2) |-> Int16LE(pcmData[2 * k - 1], pcmData[2 * k])]

\* Line 270: sample / 32768 as a Float32, which holds every such quotient
\* exactly: the number n / d.
channelDataOf(pcm16) == [k \in 1..Len(pcm16) |-> [n |-> pcm16[k], d |-> 32768]]

\* Line 261: mimeType.match(/rate=(\d+)/): the positions where it matches.
RateMatches(m) == { k \in 1..(Len(m) - 1) : m[k] = "rate=" /\ m[k + 1] \in Digits }

\* The digits from position k on, read as a decimal number (parseInt).
RECURSIVE ParseInt(_, _, _)
ParseInt(m, k, n) ==
    IF k <= Len(m) /\ m[k] \in Digits
    THEN ParseInt(m, k + 1, 10 * n + DigitVal(m[k])) ELSE n

sampleRateOf(m) ==
    LET k == CHOOSE x \in RateMatches(m) : \A y \in RateMatches(m) : x <= y
    IN ParseInt(m, k + 1, 0)

\* Lines 171-175: the parsed prompts when the text is a non-empty array.
ValidPrompts(jsonText) ==
    LET parsed == JSONParse(CleanedText(jsonText)) IN
    parsed.ok /\ parsed.val.t = "array" /\ Len(parsed.val.a) > 0

\* What a stage needs from a response that has a candidate: a text (story),
\* a text holding a non-empty JSON array (prompts), image data (image), the
\* candidate alone (audio).
Usable(stage, response) ==
    CASE stage = "audio" -> TRUE
      [] stage = "image" ->
           ~PartsThrows(response) /\ Truthy(imageDataOf(FirstParts(response)))
      [] stage = "story" ->
           /\ ~PartsThrows(response)
           /\ FirstParts(response) # <<>>
           /\ FirstParts(response)[1].text.t = "string"
           /\ FirstParts(response)[1].text.s # <<>>
      [] stage = "prompts" ->
           /\ ~PartsThrows(response)
           /\ FirstParts(response) # <<>>
           /\ FirstParts(response)[1].text.t = "string"
           /\ ValidPrompts(FirstParts(response)[1].text.s)

\* How an attempt's outcome is recorded in the log of its loop: the call
\* raised or returned no candidate ("nothing"), it returned a candidate
\* without what the stage needs ("unusable"), or with it ("usable").
Kind(stage, outcome) ==
    IF outcome.t = "rejects" THEN "nothing"
    ELSE IF ~HasCandidates(outcome.response) THEN "nothing"
    ELSE IF Usable(stage, outcome.response) THEN "usable"
    ELSE "unusable"

\* Fallback with the third window read to the end of the story.
FallbackOpenWindow(story) ==
    << Str(<<"Render 3D de alta calidad, que muestre la escena principal del cuento: ">>
           \o Substring2(story, 0, 50) \o <<".", ".", ".">>),
       Str(<<"Render 3D de alta calidad, que muestre una escena de accion del cuento: ">>
           \o Substring2(story, 50, 100) \o <<".", ".", ".">>),
       Str(<<"Render 3D de alta calidad, que muestre el final feliz del cuento: ">>
           \o Substring(story, 100) \o <<".", ".", ".">>) >>

\* Lines 191-195: the three template sentences of the fallback.
Fallback(story) ==
    << Str(<<"Render 3D de alta calidad, que muestre la escena principal del cuento: ">>
           \o Substring2(story, 0, 50) \o <<".", ".", ".">>),
       Str(<<"Render 3D de alta calidad, que muestre una escena de accion del cuento: ">>
           \o Substring2(story, 50, 100) \o <<".", ".", ".">>),
       Str(<<"Render 3D de alta calidad, que muestre el final feliz del cuento: ">>
           \o Substring2(story, 100, 150) \o <<".", ".", ".">>) >>

\* Lines 118 and 275: the generated file names.
ImageFile(ts, idx) == [dir |-> "images", ts |-> ts, idx |-> idx]
AudioFile(ts) == [dir |-> "audio", ts |-> ts, idx |-> 0]

\* Lines 310 and 343: protocol://host prepended to a relative URL.
FullUrl(url) == [host |-> "host", path |-> url]
FullUrls(urls) == [k \in 1..Len(urls) |-> FullUrl(urls[k])]

\* The errors the pipeline raises.
ErrCuento == "No se pudo generar el cuento despues de varios intentos."
ErrImagen == "No se pudo generar ninguna imagen despues de varios intentos."
ErrCuentoAudio == "No se pudo generar el cuento para el audio."
ErrCandidatos == "La respuesta de la API de audio no contiene candidatos despues de varios intentos."
ErrAudio == "La respuesta de la API no contiene datos de audio."
TypeError == "TypeError"

\* The fixed messages of the handlers.
MsgFaltan == "Faltan parametros: personaje, lugar y objeto son obligatorios."
MsgError(route) ==
    IF route = "/create-story"
    THEN "Hubo un error al generar el cuento y la imagen."
    ELSE "Hubo un error al generar el cuento, la imagen y el audio."

(***************************************************************************)
(* State.  flow[r] is the state of request r: the position of its handler  *)
(* (pc), the locals of the functions it is in, the HTTP response sent      *)
(* (res), the retry loop it is in or has just left (stage) with the log of *)
(* that loop's calls and waits, how each scene prompt ended (outcomes),     *)
(* the delay of the timer it is suspended in (delay, 0 when in none) and   *)
(* the decoded samples of the narration (channelData).                     *)
(* now is Date.now(); files is the content of public/images and            *)
(* public/audio.                                                           *)
(***************************************************************************)
VARIABLES flow, now, files

vars == <<flow, now, files>>

NoResponse == [status |-> 0, error |-> "", cuento |-> Undefined,
               imageUrls |-> <<>>, audioUrl |-> Undefined]

NewFlow ==
    [pc |-> "idle", route |-> "", query |-> [personaje |-> Undefined,
                                             lugar |-> Undefined,
                                             objeto |-> Undefined],
     numImages |-> 0, cuento |-> Null, imageUrls |-> <<>>,
     imagePrompts |-> <<>>, response |-> Undefined, sampleRate |-> 0,
     i |-> 0, j |-> 0, error |-> "", res |-> NoResponse,
     stage |-> "", log |-> <<>>, outcomes |-> <<>>, delay |-> 0,
     channelData |-> <<>>]

InitFor(R) ==
    /\ flow = [r \in R |-> NewFlow]
    /\ now = 0
    /\ files = {}

Init == InitFor({1})

Requests == DOMAIN flow

\* Log entries of a retry loop.
Call(i, kind) == [ev |-> "call", i |-> i, kind |-> kind]
Slept(i) == [ev |-> "sleep", i |-> i, kind |-> ""]

\* res.status(400).json({error}) (lines 303, 328)
Respond400(f) ==
    [f EXCEPT !.pc = "done",
              !.res = [NoResponse EXCEPT !.status = 400, !.error = MsgFaltan]]

\* Respond500 without the status(500) call.
Respond500NoStatus(f, err) ==
    [f EXCEPT !.pc = "done", !.error = err,
              !.res = [NoResponse EXCEPT !.status = 200, !.error = MsgError(f.route)]]

\* The catch of the handler (lines 318-320, 352-354).
Respond500(f, err) ==
    [f EXCEPT !.pc = "done", !.error = err,
              !.res = [NoResponse EXCEPT !.status = 500, !.error = MsgError(f.route)]]

\* StartSleep that does not wait after the last attempt.
StartSleepSkipLast(f, sleepPc, jitter) ==
    IF f.i = maxAttempts - 1 THEN [f EXCEPT !.pc = sleepPc]
    ELSE [f EXCEPT !.pc = sleepPc, !.log = Append(@, Slept(f.i)),
                   !.delay = sleepDelay(f.i, jitter)]

\* await sleep(i) of a retry loop: setTimeout(resolve, delay) (line 50), the
\* flow is suspended in the timer.
StartSleep(f, sleepPc, jitter) ==
    [f EXCEPT !.pc = sleepPc, !.log = Append(@, Slept(f.i)),
              !.delay = sleepDelay(f.i, jitter)]

\* AfterSleep with the loop test written i <= maxAttempts.
AfterSleepOffByOne(f, callPc, donePc) ==
    [f EXCEPT !.i = @ + 1, !.delay = 0,
              !.pc = IF f.i + 1 <= maxAttempts THEN callPc ELSE donePc]

\* The timer of sleep fired: i++ and the loop test i < maxAttempts.
AfterSleep(f, callPc, donePc) ==
    [f EXCEPT !.i = @ + 1, !.delay = 0,
              !.pc = IF f.i + 1 < maxAttempts THEN callPc ELSE donePc]

(***************************************************************************)
(* The handlers (lines 299-321 and 324-355), entry.                        *)
(***************************************************************************)
\* MissingParams without the test of objeto.
MissingParamsTwo(query) ==
    ~Truthy(query.personaje) \/ ~Truthy(query.lugar)

\* !personaje || !lugar || !objeto
MissingParams(query) ==
    ~Truthy(query.personaje) \/ ~Truthy(query.lugar) \/ ~Truthy(query.objeto)

\* The fourth argument of crearCuentoEImagenesSecuencia (lines 307, 333).
NumImagesOf(route) == IF route = "/create-story" THEN 1 ELSE 3

\* A request arrives: validation, then crearCuentoEImagenesSecuencia up to
\* its first remote call (lines 60-75).
RequestFrom(r, queries) ==
    /\ flow[r].pc = "idle"
    /\ \E route \in Routes, query \in queries :
         LET f == [flow[r] EXCEPT !.route = route, !.query = query] IN
         flow' = [flow EXCEPT ![r] =
                    IF MissingParams(query) THEN Respond400(f)
                    ELSE [f EXCEPT !.pc = "story_call",
                                   !.numImages = NumImagesOf(route),
                                   !.cuento = Null, !.imageUrls = <<>>,
                                   !.i = 0, !.stage = "story", !.log = <<>>]]
    /\ UNCHANGED <<now, files>>

(***************************************************************************)
(* 1. The story loop (lines 73-88).                                        *)
(***************************************************************************)
\* Line 77: the test that lets the story loop take the text and break.
StoryAccepted(response) == HasCandidates(response)

\* One attempt: the call settles and the body runs to the next await.
StoryAttemptFrom(r, outcomes) ==
    /\ flow[r].pc = "story_call"
    /\ \E out \in outcomes, jitter \in Jitters :
         LET f == [flow[r] EXCEPT !.log = Append(@, Call(flow[r].i, Kind(flow[r].stage, out)))] IN
         flow' = [flow EXCEPT ![r] =
                    IF out.t = "rejects" THEN StartSleep(f, "story_sleep", jitter)
                    ELSE IF ~StoryAccepted(out.response) THEN StartSleep(f, "story_sleep", jitter)
                    ELSE IF PartsThrows(out.response) \/ FirstParts(out.response) = <<>>
                         THEN StartSleep(f, "story_sleep", jitter)
                    ELSE [f EXCEPT !.cuento = FirstParts(out.response)[1].text,
                                   !.pc = "story_done"]]
    /\ UNCHANGED <<now, files>>

StorySleepDone(r) ==
    /\ flow[r].pc = "story_sleep"
    /\ flow' = [flow EXCEPT ![r] = AfterSleep(flow[r], "story_call", "story_done")]
    /\ UNCHANGED <<now, files>>

\* Lines 89-97 and 153-165: the test of cuento, then
\* generarPromptsSecuenciales up to its first remote call.
StoryDone(r) ==
    /\ flow[r].pc = "story_done"
    /\ flow' = [flow EXCEPT ![r] =
                  IF ~Truthy(flow[r].cuento) THEN Respond500(flow[r], ErrCuento)
                  ELSE [flow[r] EXCEPT !.pc = "prompts_call", !.i = 0,
                                       !.response = Undefined,
                                       !.stage = "prompts", !.log = <<>>]]
    /\ UNCHANGED <<now, files>>

(***************************************************************************)
(* 2. generarPromptsSecuenciales (lines 153-196).                          *)
(***************************************************************************)
\* Line 174: prompts.slice(0, numPrompts)
ReturnedPrompts(jsonText, numPrompts) ==
    Slice(JSONParse(CleanedText(jsonText)).val.a, numPrompts)

\* Lines 189-195: what the function returns once the loop has run out.
ExhaustedPrompts(story, numPrompts) == Fallback(story)

\* The end of an iteration that neither returned nor slept (lines 173-178):
\* i++, and either the next call or the fallback.
PromptsNextIteration(f) ==
    IF f.i + 1 < maxAttempts
    THEN [f EXCEPT !.i = @ + 1, !.pc = "prompts_call"]
    ELSE [f EXCEPT !.i = @ + 1, !.pc = "prompts_done",
                   !.imagePrompts = ExhaustedPrompts(f.cuento.s, f.numImages)]

PromptsAttemptFrom(r, outcomes) ==
    /\ flow[r].pc = "prompts_call"
    /\ \E out \in outcomes, jitter \in Jitters :
         LET f == [flow[r] EXCEPT !.log = Append(@, Call(flow[r].i, Kind(flow[r].stage, out)))] IN
         flow' = [flow EXCEPT ![r] =
                    IF out.t = "rejects" THEN StartSleep(f, "prompts_sleep", jitter)
                    ELSE LET g == [f EXCEPT !.response = out.response] IN
                         IF ~HasCandidates(out.response) THEN StartSleep(g, "prompts_sleep", jitter)
                         ELSE IF PartsThrows(out.response) \/ FirstParts(out.response) = <<>>
                              THEN StartSleep(g, "prompts_sleep", jitter)
                         ELSE LET jsonText == FirstParts(out.response)[1].text IN
                              \* undefined.substring raises inside the inner try
                              IF jsonText.t # "string" THEN PromptsNextIteration(g)
                              ELSE IF ValidPrompts(jsonText.s)
                                   THEN [g EXCEPT !.pc = "prompts_done",
                                                  !.imagePrompts =
                                                     ReturnedPrompts(jsonText.s, g.numImages)]
                                   ELSE PromptsNextIteration(g)]
    /\ UNCHANGED <<now, files>>

\* The timer fired; when the loop has run out the fallback is returned.
PromptsSleepDone(r) ==
    /\ flow[r].pc = "prompts_sleep"
    /\ LET f == AfterSleep(flow[r], "prompts_call", "prompts_done") IN
       flow' = [flow EXCEPT ![r] =
                  IF f.pc = "prompts_done"
                  THEN [f EXCEPT !.imagePrompts = ExhaustedPrompts(f.cuento.s, f.numImages)]
                  ELSE f]
    /\ UNCHANGED <<now, files>>

\* Lines 97-104: the prompts are received and the image loop is entered.
PromptsReturn(r) ==
    /\ flow[r].pc = "prompts_done"
    /\ flow' = [flow EXCEPT ![r] =
                  IF flow[r].imagePrompts = <<>>
                  THEN [flow[r] EXCEPT !.pc = "images_done",
                                       !.stage = "image", !.log = <<>>]
                  ELSE [flow[r] EXCEPT !.pc = "image_call", !.j = 0, !.i = 0,
                                       !.response = Undefined,
                                       !.stage = "image", !.log = <<>>]]
    /\ UNCHANGED <<now, files>>

(***************************************************************************)
(* 3. The image loops (lines 100-138) and the end of                       *)
(* crearCuentoEImagenesSecuencia (lines 140-144).                          *)
(***************************************************************************)
\* Lines 114-116: the image data of a response, undefined when it has none.
ImageAccepted(response) ==
    /\ HasCandidates(response)
    /\ ~PartsThrows(response)
    /\ Truthy(imageDataOf(FirstParts(response)))

\* SaveImage without the break: the loop goes on to its next iteration.
SaveImageNoBreak(f, ts) ==
    [f EXCEPT !.imageUrls = Append(@, ImageFile(ts, f.j + 1)),
              !.i = @ + 1,
              !.pc = IF f.i + 1 < maxAttempts THEN "image_call" ELSE "image_done"]

\* SaveImage with unshift in place of push.
SaveImageUnshift(f, ts) ==
    [f EXCEPT !.imageUrls = <<ImageFile(ts, f.j + 1)>> \o @,
              !.pc = "image_done"]

\* Lines 117-124: the file is written and its URL pushed.
SaveImage(f, ts) ==
    [f EXCEPT !.imageUrls = Append(@, ImageFile(ts, f.j + 1)),
              !.pc = "image_done"]

ImageAttemptFrom(r, outcomes) ==
    /\ flow[r].pc = "image_call"
    /\ \E out \in outcomes, jitter \in Jitters :
         LET f == [flow[r] EXCEPT !.log = Append(@, Call(flow[r].i, Kind(flow[r].stage, out)))] IN
         IF out.t = "rejects"
         THEN /\ flow' = [flow EXCEPT ![r] = StartSleep(f, "image_sleep", jitter)]
              /\ UNCHANGED files
         ELSE LET g == [f EXCEPT !.response = out.response] IN
              IF ImageAccepted(out.response)
              THEN /\ flow' = [flow EXCEPT ![r] = SaveImage(g, now)]
                   /\ files' = files \cup {ImageFile(now, g.j + 1)}
              ELSE /\ flow' = [flow EXCEPT ![r] = StartSleep(g, "image_sleep", jitter)]
                   /\ UNCHANGED files
    /\ UNCHANGED now

ImageSleepDone(r) ==
    /\ flow[r].pc = "image_sleep"
    /\ flow' = [flow EXCEPT ![r] = AfterSleep(flow[r], "image_call", "image_done")]
    /\ UNCHANGED <<now, files>>

\* How the loop of a prompt ended, read from its log.
PromptOutcome(log) ==
    IF \E k \in 1..Len(log) : log[k].ev = "call" /\ log[k].kind = "usable"
    THEN "image" ELSE "exhausted"

\* The inner loop of prompt j is over: the next prompt, or the end of the
\* for-of loop.
ImageNext(r) ==
    /\ flow[r].pc = "image_done"
    /\ LET f == [flow[r] EXCEPT !.outcomes = Append(@, PromptOutcome(flow[r].log))] IN
       flow' = [flow EXCEPT ![r] =
                  IF f.j + 1 < Len(f.imagePrompts)
                  THEN [f EXCEPT !.j = @ + 1, !.i = 0, !.pc = "image_call",
                                 !.response = Undefined, !.log = <<>>]
                  ELSE [f EXCEPT !.pc = "images_done"]]
    /\ UNCHANGED <<now, files>>

\* NoImages with a test that is never true.
NoImagesNever(imageUrls) == Len(imageUrls) < 0

\* Line 140: imageUrls.length === 0
NoImages(imageUrls) == Len(imageUrls) = 0

\* res.json({cuento, imageUrls}) (lines 310-316)
Respond200Story(f) ==
    [f EXCEPT !.pc = "done",
              !.res = [NoResponse EXCEPT !.status = 200, !.cuento = f.cuento,
                                         !.imageUrls = FullUrls(f.imageUrls)]]

\* Lines 140-144, then the handler: /create-story answers (lines 310-316),
\* /create-story-audio enters generarAudioDeCuento up to its first remote
\* call (lines 334-339, 203-213).
ImagesDone(r) ==
    /\ flow[r].pc = "images_done"
    /\ flow' = [flow EXCEPT ![r] =
                  IF NoImages(flow[r].imageUrls) THEN Respond500(flow[r], ErrImagen)
                  ELSE IF flow[r].route = "/create-story" THEN Respond200Story(flow[r])
                  ELSE IF ~Truthy(flow[r].cuento) THEN Respond500(flow[r], ErrCuentoAudio)
                  ELSE [flow[r] EXCEPT !.pc = "audio_call", !.i = 0,
                                       !.response = Undefined,
                                       !.stage = "audio", !.log = <<>>]]
    /\ UNCHANGED <<now, files>>

(***************************************************************************)
(* 4. generarAudioDeCuento (lines 203-288).                                *)
(***************************************************************************)
AudioAttemptFrom(r, outcomes) ==
    /\ flow[r].pc = "audio_call"
    /\ \E out \in outcomes, jitter \in Jitters :
         LET f == [flow[r] EXCEPT !.log = Append(@, Call(flow[r].i, Kind(flow[r].stage, out)))] IN
         flow' = [flow EXCEPT ![r] =
                    IF out.t = "rejects" THEN StartSleep(f, "audio_sleep", jitter)
                    ELSE LET g == [f EXCEPT !.response = out.response] IN
                         IF HasCandidates(out.response)
                         THEN [g EXCEPT !.pc = "audio_done"]
                         ELSE StartSleep(g, "audio_sleep", jitter)]
    /\ UNCHANGED <<now, files>>

AudioSleepDone(r) ==
    /\ flow[r].pc = "audio_sleep"
    /\ flow' = [flow EXCEPT ![r] = AfterSleep(flow[r], "audio_call", "audio_done")]
    /\ UNCHANGED <<now, files>>

\* Lines 247-261: the error raised after the loop, "" when there is none.
AudioError(response) ==
    IF response.t = "undefined" THEN TypeError
    ELSE IF ~Truthy(response.candidates) \/ Len(response.candidates.a) = 0
         THEN ErrCandidatos
    ELSE IF PartsThrows(response) THEN TypeError
    ELSE LET part == audioDataPartOf(FirstParts(response)) IN
         IF ~Truthy(part) THEN ErrAudio
         ELSE IF RateMatches(part.inlineData.mimeType.s) = {} THEN TypeError
         ELSE ""

\* AudioDecode deleting the images of the request when it fails.
AudioDecodeRollback(r) ==
    /\ flow[r].pc = "audio_done"
    /\ LET f == flow[r]
           err == AudioError(f.response) IN
       /\ flow' = [flow EXCEPT ![r] =
                     IF err # "" THEN Respond500(f, err)
                     ELSE [f EXCEPT !.pc = "audio_encode",
                                    !.sampleRate =
                                       sampleRateOf(audioDataPartOf(FirstParts(f.response))
                                                       .inlineData.mimeType.s),
                                    !.channelData =
                                       channelDataOf(pcm16Of(Base64Decode(
                                          audioDataPartOf(FirstParts(f.response))
                                             .inlineData.data.s)))]]
       /\ files' = IF err # "" THEN files \ { f.imageUrls[k] : k \in 1..Len(f.imageUrls) }
                   ELSE files
    /\ UNCHANGED now

\* Lines 247-273: the retained response is decoded, up to the await of
\* WavEncoder.encode; an error goes through both catches to the handler.
AudioDecode(r) ==
    /\ flow[r].pc = "audio_done"
    /\ LET f == flow[r]
           err == AudioError(f.response) IN
       flow' = [flow EXCEPT ![r] =
                  IF err # "" THEN Respond500(f, err)
                  ELSE [f EXCEPT !.pc = "audio_encode",
                                 !.sampleRate =
                                    sampleRateOf(audioDataPartOf(FirstParts(f.response))
                                                    .inlineData.mimeType.s),
                                 !.channelData =
                                    channelDataOf(pcm16Of(Base64Decode(
                                       audioDataPartOf(FirstParts(f.response))
                                          .inlineData.data.s)))]]
    /\ UNCHANGED <<now, files>>

\* res.json({cuento, imageUrls, audioUrl}) (lines 342-350)
Respond200Audio(f, audioUrl) ==
    [f EXCEPT !.pc = "done",
              !.res = [NoResponse EXCEPT !.status = 200, !.cuento = f.cuento,
                                         !.imageUrls = FullUrls(f.imageUrls),
                                         !.audioUrl = FullUrl(audioUrl)]]

\* Lines 275-282 and 341-350: the encoded audio is written and the handler
\* answers.
AudioWrite(r) ==
    /\ flow[r].pc = "audio_encode"
    /\ files' = files \cup {AudioFile(now)}
    /\ flow' = [flow EXCEPT ![r] = Respond200Audio(flow[r], AudioFile(now))]
    /\ UNCHANGED now

(***************************************************************************)
(* The clock and the specification.                                        *)
(***************************************************************************)
\* Date.now() advances.
Tick ==
    /\ now < MaxClock
    /\ now' = now + 1
    /\ UNCHANGED <<flow, files>>

\* The steps with the requests and the remote outcomes of the model.
Request(r) == RequestFrom(r, Queries)
StoryAttempt(r) == StoryAttemptFrom(r, StoryOutcomes)
PromptsAttempt(r) == PromptsAttemptFrom(r, ScenePromptOutcomes)
ImageAttempt(r) == ImageAttemptFrom(r, ImageOutcomes)
AudioAttempt(r) == AudioAttemptFrom(r, AudioOutcomes)

Next ==
    \/ Tick
    \/ \E r \in Requests :
         \/ Request(r)
         \/ StoryAttempt(r)
         \/ StorySleepDone(r)
         \/ StoryDone(r)
         \/ PromptsAttempt(r)
         \/ PromptsSleepDone(r)
         \/ PromptsReturn(r)
         \/ ImageAttempt(r)
         \/ ImageSleepDone(r)
         \/ ImageNext(r)
         \/ ImagesDone(r)
         \/ AudioAttempt(r)
         \/ AudioSleepDone(r)
         \/ AudioDecode(r)
         \/ AudioWrite(r)

Spec == Init /\ [][Next]_vars

(***************************************************************************)
(* The server under fair scheduling: every remote call settles and every   *)
(* timer fires, so an arrived request is never suspended for ever. The     *)
(* remote outcomes are one for each path through a loop body: the call     *)
(* throws, returns no candidate, returns a candidate the stage cannot use, *)
(* or returns what the stage needs.                                        *)
(***************************************************************************)
\* The complete query and three with a parameter absent or empty.
FairQueries ==
    { q \in Queries : q.personaje = q.lugar /\ q.lugar # Undefined /\ q.objeto # Str(<<>>) }
FairStoryOutcomes ==
    { Rejects, Resolves(Response(Arr(<<>>))),
      Resolves(WithParts(<<TextPart(Str(<<>>))>>)),
      Resolves(WithParts(<<TextPart(Str(StoryText(70)))>>)) }
FairPromptsOutcomes ==
    { Rejects, Resolves(Response(Arr(<<>>))),
      Resolves(WithParts(<<TextPart(Str(<<"n", "o">>))>>)),
      Resolves(WithParts(<<TextPart(Str(ArrayText(2)))>>)) }
FairImageOutcomes ==
    { Rejects, Resolves(Response(Arr(<<>>))),
      Resolves(WithParts(<<TextPart(Str(<<"o", "k">>))>>)),
      Resolves(WithParts(<<InlinePart(Str(Png), ImageData)>>)) }
FairAudioOutcomes ==
    { Rejects, Resolves(Undefined), Resolves(Response(Arr(<<>>))),
      Resolves(WithParts(<<InlinePart(Str(Png), ImageData)>>)),
      Resolves(WithParts(<<InlinePart(Str(Pcm), AudioData)>>)) }

\* A step of a request that has arrived: a remote call settling, a timer
\* firing, or the continuation the event loop runs after either.
Continue ==
    \E r \in Requests :
        \/ StoryAttemptFrom(r, FairStoryOutcomes)
        \/ StorySleepDone(r)
        \/ StoryDone(r)
        \/ PromptsAttemptFrom(r, FairPromptsOutcomes)
        \/ PromptsSleepDone(r)
        \/ PromptsReturn(r)
        \/ ImageAttemptFrom(r, FairImageOutcomes)
        \/ ImageSleepDone(r)
        \/ ImageNext(r)
        \/ ImagesDone(r)
        \/ AudioAttemptFrom(r, FairAudioOutcomes)
        \/ AudioSleepDone(r)
        \/ AudioDecode(r)
        \/ AudioWrite(r)

FairNext ==
    \/ Tick
    \/ \E r \in Requests : RequestFrom(r, FairQueries)
    \/ Continue

FairSpec == Init /\ [][FairNext]_vars /\ WF_vars(Continue)

(***************************************************************************)
(* Two requests in flight. Every await is a point where the other request  *)
(* may run. The requests are complete ones, the story, scene-prompt and    *)
(* narration calls succeed at once, and an image call either throws or     *)
(* returns an image.                                                       *)
(***************************************************************************)
ConcQueries == { q \in Queries : ~MissingParams(q) }
ConcStoryOutcomes == { Resolves(WithParts(<<TextPart(Str(StoryText(160)))>>)) }
ConcPromptsOutcomes == { Resolves(WithParts(<<TextPart(Str(ArrayText(2)))>>)) }
ConcImageOutcomes == { Rejects, Resolves(WithParts(<<InlinePart(Str(Png), ImageData)>>)) }
ConcAudioOutcomes == { Resolves(WithParts(<<InlinePart(Str(Pcm), AudioData)>>)) }

ConcInit == InitFor({1, 2})

ConcNext ==
    \/ Tick
    \/ \E r \in Requests :
         \/ RequestFrom(r, ConcQueries)
         \/ StoryAttemptFrom(r, ConcStoryOutcomes)
         \/ StoryDone(r)
         \/ PromptsAttemptFrom(r, ConcPromptsOutcomes)
         \/ PromptsReturn(r)
         \/ ImageAttemptFrom(r, ConcImageOutcomes)
         \/ ImageSleepDone(r)
         \/ ImageNext(r)
         \/ ImagesDone(r)
         \/ AudioAttemptFrom(r, ConcAudioOutcomes)
         \/ AudioDecode(r)
         \/ AudioWrite(r)

ConcSpec == ConcInit /\ [][ConcNext]_vars

(***************************************************************************)
(* sleep(attempt) on its own (lines 48-51): every attempt index of the     *)
(* loops with every value of the jitter.                                   *)
(***************************************************************************)
SleepCall(r) ==
    /\ flow[r].pc = "idle"
    /\ \E attempt \in 0..(maxAttempts - 1), jitter \in 0..MaxJitter :
         flow' = [flow EXCEPT ![r] =
                    StartSleep([flow[r] EXCEPT !.i = attempt], "asleep", jitter)]
    /\ UNCHANGED <<now, files>>

\* The timer calls resolve.
SleepResolve(r) ==
    /\ flow[r].pc = "asleep"
    /\ flow' = [flow EXCEPT ![r] = NewFlow]
    /\ UNCHANGED <<now, files>>

SleepNext == \E r \in Requests : SleepCall(r) \/ SleepResolve(r)

SleepSpec == Init /\ [][SleepNext]_vars

(***************************************************************************)
(* Properties.                                                             *)
(***************************************************************************)
IsCall(e) == e.ev = "call"
IsSleep(e) == e.ev = "sleep"
\* The number of remote calls a log holds.
NCalls(log) == Len(SelectSeq(log, IsCall))
\* Every call of the log raised or returned no candidate.
AllNothing(log) == \A k \in 1..Len(log) : IsCall(log[k]) => log[k].kind = "nothing"
\* The positions at which a retry loop has just been left.
LoopExits == {"story_done", "prompts_done", "image_done", "audio_done"}
\* The positions inside a retry loop.
InLoop == {"story_call", "story_sleep", "prompts_call", "prompts_sleep",
           "image_call", "image_sleep", "audio_call", "audio_sleep"}
\* The prompt indices of a list of image files.
IndexList(urls) == [k \in 1..Len(urls) |-> urls[k].idx]

\* C1: a retry loop whose calls all raise or return no candidate makes
\* exactly 5 calls, never more, and is then left with the exhausted outcome:
\* no story, the fallback prompts, no image for the prompt, no usable audio
\* response; the story loop ends in the error ErrCuento.
C1_ExhaustAfterFive ==
    \A r \in Requests :
        LET f == flow[r] IN
        /\ NCalls(f.log) <= 5
        /\ (f.pc \in LoopExits /\ AllNothing(f.log)) =>
              /\ NCalls(f.log) = 5
              /\ f.stage = "story" => ~Truthy(f.cuento)
              /\ f.stage = "prompts" => f.imagePrompts = Fallback(f.cuento.s)
              /\ f.stage = "image" =>
                    \A k \in 1..Len(f.imageUrls) : f.imageUrls[k].idx # f.j + 1
              /\ f.stage = "audio" => AudioError(f.response) # ""
        /\ (f.pc = "done" /\ f.stage = "story" /\ AllNothing(f.log)) =>
              /\ NCalls(f.log) = 5
              /\ f.error = ErrCuento
              /\ f.res.status = 500

\* A story loop that failed five times has ended in the story error.
C1_Witness ==
    \E r \in Requests :
        /\ flow[r].pc = "done" /\ flow[r].stage = "story"
        /\ AllNothing(flow[r].log) /\ NCalls(flow[r].log) = 5
        /\ flow[r].error = ErrCuento

\* C2: in every retry loop a call that returns what the stage needs is the
\* last entry of the loop's log (no later call, no later wait), the loop is
\* left, and the loop's result is that attempt's: a story, parsed prompts,
\* the image of the prompt, the response with its candidate.
C2_StopOnSuccess ==
    \A r \in Requests :
        LET f == flow[r] IN
        \A k \in 1..Len(f.log) :
            (IsCall(f.log[k]) /\ f.log[k].kind = "usable") =>
                /\ k = Len(f.log)
                /\ f.log[k].i = NCalls(f.log) - 1
                /\ f.pc \notin InLoop
                /\ f.stage = "story" => Truthy(f.cuento)
                /\ f.stage = "prompts" =>
                      /\ f.imagePrompts # <<>>
                      /\ f.imagePrompts # Fallback(f.cuento.s)
                /\ f.stage = "image" =>
                      /\ f.imageUrls # <<>>
                      /\ f.imageUrls[Len(f.imageUrls)].idx = f.j + 1
                      /\ f.imageUrls[Len(f.imageUrls)] \in files
                /\ f.stage = "audio" => HasCandidates(f.response)

\* An image loop left on the success of its third attempt.
C2_Witness ==
    \E r \in Requests :
        /\ flow[r].pc = "image_done"
        /\ Len(flow[r].log) = 5
        /\ flow[r].log[5] = Call(2, "usable")

\* C3: in the log of every retry loop an attempt that did not succeed and
\* is not the last entry is followed by the wait Slept(i) of its index.
C3_WaitAfterEveryFailure ==
    \A r \in Requests :
        LET log == flow[r].log IN
        \A k \in 1..(Len(log) - 1) :
            (IsCall(log[k]) /\ log[k].kind # "usable") => log[k + 1] = Slept(log[k].i)

\* C4: the story error is raised only after 5 story calls.
C4_StoryErrorOnlyAfterFive ==
    \A r \in Requests :
        flow[r].error = ErrCuento => NCalls(flow[r].log) = 5

\* C5: the list generarPromptsSecuenciales returns has at most numPrompts
\* elements.
C5_AtMostNPrompts ==
    \A r \in Requests :
        flow[r].pc = "prompts_done" => Len(flow[r].imagePrompts) <= flow[r].numImages

\* C6: a 200 of /create-story carries exactly one image URL, a 200 of
\* /create-story-audio between 1 and 3.
C6_ImageUrlCount ==
    \A r \in Requests :
        flow[r].res.status = 200 =>
            IF flow[r].route = "/create-story"
            THEN Len(flow[r].res.imageUrls) = 1
            ELSE Len(flow[r].res.imageUrls) \in 1..3

\* A parameter that is absent or the empty string.
Blank(v) == v = Undefined \/ v = Str(<<>>)
AnyBlank(query) == Blank(query.personaje) \/ Blank(query.lugar) \/ Blank(query.objeto)

\* C7: a request with a missing or empty personaje, lugar or objeto is
\* answered 400 with the error body, makes no remote call and writes no file.
C7_MissingParameter400 ==
    \A r \in Requests :
        LET f == flow[r] IN
        (f.pc # "idle" /\ AnyBlank(f.query)) =>
            /\ f.pc = "done"
            /\ f.res.status = 400
            /\ f.res.error = MsgFaltan
            /\ f.log = <<>> /\ f.stage = ""
            /\ f.imageUrls = <<>>
            /\ Cardinality(Requests) = 1 => files = {}

\* A request of /create-story-audio without objeto has been answered.
C7_Witness ==
    \E r \in Requests :
        /\ flow[r].pc = "done"
        /\ flow[r].route = "/create-story-audio"
        /\ flow[r].query.objeto = Undefined
        /\ flow[r].query.personaje = Str(<<"p">>)
        /\ flow[r].query.lugar = Str(<<"p">>)
        /\ flow[r].res.status = 400

\* The request failed fatally: no story, no image, or (with audio asked
\* for) no audio file.
FatallyFailed(f) ==
    \/ ~Truthy(f.cuento)
    \/ f.imageUrls = <<>>
    \/ f.route = "/create-story-audio" /\ \A ts \in 0..now : AudioFile(ts) \notin files

\* C8: an answered request with valid parameters has a 500 with the fixed
\* message whenever an error was raised or the pipeline failed fatally, and
\* a 200 only with a non-empty story, at least one image written and, on
\* /create-story-audio, the audio file written.
C8_FatalMeans500 ==
    \A r \in Requests :
        LET f == flow[r] IN
        (f.pc = "done" /\ ~AnyBlank(f.query)) =>
            /\ f.res.status \in {200, 500}
            /\ (f.error # "" \/ FatallyFailed(f)) =>
                  /\ f.res.status = 500
                  /\ f.res.error = MsgError(f.route)
                  /\ f.res.imageUrls = <<>>
            /\ f.res.status = 200 =>
                  /\ f.error = ""
                  /\ f.res.cuento.t = "string" /\ f.res.cuento.s # <<>>
                  /\ Len(f.res.imageUrls) >= 1
                  /\ \A k \in 1..Len(f.res.imageUrls) : f.res.imageUrls[k].path \in files
                  /\ f.route = "/create-story-audio" =>
                        /\ f.res.audioUrl # Undefined
                        /\ f.res.audioUrl.path \in files

\* A /create-story-audio request whose narration failed after images were
\* written has been answered 500.
C8_Witness ==
    \E r \in Requests :
        /\ flow[r].pc = "done"
        /\ flow[r].stage = "audio"
        /\ flow[r].imageUrls # <<>>
        /\ flow[r].error = ErrAudio
        /\ flow[r].res.status = 500

\* The indices k <= n of the prompts that ended with an image, in order.
RECURSIVE Succeeded(_, _)
Succeeded(outcomes, n) ==
    IF n = 0 THEN <<>>
    ELSE Succeeded(outcomes, n - 1)
         \o (IF outcomes[n] = "image" THEN <<n>> ELSE <<>>)

\* C9: once the prompts are processed the image list holds exactly one
\* entry for each prompt that ended with an image and none for a prompt that
\* exhausted its 5 attempts, in the order of the prompts; an exhausted
\* prompt does not end the request; the 200 carries the same list.
C9_ExhaustedPromptSkipped ==
    \A r \in Requests :
        LET f == flow[r] IN
        /\ Len(f.outcomes) <= Len(f.imagePrompts)
        /\ IndexList(f.imageUrls) =
              Succeeded(f.outcomes, Len(f.outcomes))
              \o (IF f.pc = "image_done" /\ PromptOutcome(f.log) = "image"
                  THEN <<f.j + 1>> ELSE <<>>)
        /\ (f.pc = "image_done" /\ PromptOutcome(f.log) = "exhausted") =>
              /\ NCalls(f.log) = 5
              /\ f.error = ""
        /\ f.res.status = 200 =>
              /\ Len(f.outcomes) = Len(f.imagePrompts)
              /\ f.res.imageUrls = FullUrls(f.imageUrls)

\* Scene 2 exhausted, scenes 1 and 3 illustrated, and the request answered.
C9_Witness ==
    \E r \in Requests :
        /\ flow[r].outcomes = <<"image", "exhausted", "image">>
        /\ IndexList(flow[r].imageUrls) = <<1, 3>>
        /\ flow[r].res.status = 200

\* C10: with every prompt exhausted the function raises ErrImagen, and only
\* after the last prompt was processed; no 200 has an empty image list.
C10_NoImagesError ==
    \A r \in Requests :
        LET f == flow[r]
            allExhausted == /\ Len(f.outcomes) = Len(f.imagePrompts)
                            /\ \A k \in 1..Len(f.outcomes) : f.outcomes[k] = "exhausted"
        IN
        /\ f.error = ErrImagen =>
              /\ allExhausted
              /\ f.imageUrls = <<>>
              /\ f.res.status = 500
        /\ (f.pc = "done" /\ f.stage = "image" /\ allExhausted) =>
              f.error = ErrImagen
        /\ f.res.status = 200 => f.res.imageUrls # <<>>

\* Three prompts, each exhausted, and the error raised.
C10_Witness ==
    \E r \in Requests :
        /\ flow[r].outcomes = <<"exhausted", "exhausted", "exhausted">>
        /\ flow[r].error = ErrImagen

\* The characters of a story at the 0-based positions a..b-1 that exist.
Window(story, a, b) ==
    LET lo == IF a > Len(story) THEN Len(story) ELSE a
        hi == IF b > Len(story) THEN Len(story) ELSE b
    IN [k \in 1..(hi - lo) |-> story[lo + k]]

\* The sentence of a template around a window of the story.
Sentence(template, story, a, b) ==
    Str(<<template>> \o Window(story, a, b) \o <<".", ".", ".">>)

\* No call of the log returned what the stage needs.
NoneUsable(log) == \A k \in 1..Len(log) : IsCall(log[k]) => log[k].kind # "usable"

\* C11: when none of the 5 scene-prompt attempts gives a non-empty JSON
\* array, generarPromptsSecuenciales raises nothing and returns exactly the 3
\* template sentences around the story's windows [0,50), [50,100) and
\* [100,150), whatever the route and the failures were.
C11_FallbackPrompts ==
    \A r \in Requests :
        LET f == flow[r] IN
        (f.stage = "prompts" /\ f.pc = "prompts_done" /\ NoneUsable(f.log)) =>
            /\ NCalls(f.log) = 5
            /\ f.error = "" /\ f.res.status = 0
            /\ Len(f.imagePrompts) = 3
            /\ f.imagePrompts =
                  << Sentence("Render 3D de alta calidad, que muestre la escena principal del cuento: ",
                              f.cuento.s, 0, 50),
                     Sentence("Render 3D de alta calidad, que muestre una escena de accion del cuento: ",
                              f.cuento.s, 50, 100),
                     Sentence("Render 3D de alta calidad, que muestre el final feliz del cuento: ",
                              f.cuento.s, 100, 150) >>

\* The fallback returned for a story of 160 characters after five responses
\* that held a candidate but no usable array.
C11_Witness ==
    \E r \in Requests :
        /\ flow[r].pc = "prompts_done"
        /\ Len(flow[r].cuento.s) = 160
        /\ flow[r].log = << Call(0, "unusable"), Call(1, "unusable"), Call(2, "unusable"),
                            Call(3, "unusable"), Call(4, "unusable") >>
        /\ Len(flow[r].imagePrompts) = 3

\* A flow suspended in the timer of sleep.
Sleeping(f) ==
    f.pc \in {"asleep", "story_sleep", "prompts_sleep", "image_sleep", "audio_sleep"}

\* 2^a for the attempt indices 0..4, written out.
PowerOfTwo == <<1, 2, 4, 8, 16>>

\* C12: for every attempt index a in 0..4 the delay of sleep(a) is at least
\* 2^a seconds and less than 2^a + 1 seconds: between 1000 * 2^a and
\* 1000 * 2^a + 999 milliseconds.
C12_DelayRange ==
    \A r \in Requests :
        LET f == flow[r] IN
        Sleeping(f) =>
            /\ f.i \in 0..4
            /\ f.delay >= 1000 * PowerOfTwo[f.i + 1]
            /\ f.delay <= 1000 * PowerOfTwo[f.i + 1] + 999
            /\ f.delay \div 1000 = PowerOfTwo[f.i + 1]

\* sleep(4) with the largest jitter: 16999 ms.
C12_Witness ==
    \E r \in Requests :
        flow[r].pc = "asleep" /\ flow[r].i = 4 /\ flow[r].delay = 16999

\* The files a request has written: the names its writeFileSync calls got.
WrittenBy(f) ==
    { f.imageUrls[k] : k \in 1..Len(f.imageUrls) }
    \cup (IF f.res.audioUrl = Undefined THEN {} ELSE {f.res.audioUrl.path})

\* C13: with two requests in flight no two artifact writes target the same
\* file name, so no written image or audio file is overwritten.
C13_NoFilenameCollision ==
    \A r1, r2 \in Requests :
        r1 # r2 => WrittenBy(flow[r1]) \cap WrittenBy(flow[r2]) = {}

\* The step is a remote call of request r: its log gets one more call.
CallMade(r) == NCalls(flow'[r].log) = NCalls(flow[r].log) + 1

\* The stages in the order of the pipeline.
StageSteps ==
    { <<"", "story">>, <<"story", "prompts">>, <<"prompts", "image">>,
      <<"image", "audio">> }

\* What holds of a request when it makes a remote call of its stage.
CallAllowed(f) ==
    /\ f.stage = "story" => f.pc = "story_call"
    /\ f.stage = "prompts" => f.pc = "prompts_call" /\ Truthy(f.cuento)
    /\ f.stage = "image" =>
          /\ f.pc = "image_call" /\ Truthy(f.cuento)
          /\ Len(f.imagePrompts) > 0 /\ f.j < Len(f.imagePrompts)
          /\ Len(f.outcomes) = f.j
          /\ \A k \in 1..f.j : f.outcomes[k] \in {"image", "exhausted"}
          /\ Len(f.imageUrls) = Cardinality({k \in 1..f.j : f.outcomes[k] = "image"})
    /\ f.stage = "audio" =>
          /\ f.pc = "audio_call" /\ Truthy(f.cuento)
          /\ Len(f.outcomes) = Len(f.imagePrompts)
          /\ Len(f.imageUrls) >= 1

\* C14: within a request the stages run in the order story, scene prompts,
\* illustration, narration: a scene-prompt call needs the story, an image
\* call needs the returned prompts and, for prompt j+1, the prompts up to j
\* ended with an image or exhausted, and a narration call needs the
\* illustration stage finished with at least one image.
C14_StageOrder ==
    [][\A r \in Requests :
          /\ flow'[r].stage # flow[r].stage =>
                <<flow[r].stage, flow'[r].stage>> \in StageSteps
          /\ CallMade(r) => flow[r].stage \in {"story", "prompts", "image", "audio"}
                            /\ CallAllowed(flow[r])]_vars

\* A narration call made after a prompt exhausted and a later one gave an
\* image.
C14_Witness ==
    \E r \in Requests :
        /\ flow[r].stage = "audio" /\ NCalls(flow[r].log) = 1
        /\ flow[r].outcomes = <<"exhausted", "image", "image">>

\* The narration loop is over for the request.
NarrationOver(f) == f.stage = "audio" /\ f.pc \in {"audio_encode", "done"}

\* The retained response has a candidate whose parts hold no inline data of
\* an audio media type.
LacksAudio(response) ==
    /\ HasCandidates(response)
    /\ ~PartsThrows(response)
    /\ \A k \in 1..Len(FirstParts(response)) :
          LET p == FirstParts(response)[k] IN
          \/ p.inlineData = Undefined
          \/ p.inlineData.mimeType.s[1] # "audio/"

\* No audio file was written.
NoAudioFile == \A x \in files : x.dir # "audio"

\* C15: when no narration attempt left a response object, or the retained
\* response has no candidates, or its first candidate has no inline part of
\* an audio media type, generarAudioDeCuento raises an error (the request is
\* answered 500) and writes no audio file; a response with a candidate but
\* no audio part ends the loop at once, it is not retried.
C15_NarrationFatal ==
    \A r \in Requests :
        LET f == flow[r] IN
        NarrationOver(f) =>
            /\ f.response = Undefined =>
                  f.pc = "done" /\ f.error = TypeError /\ f.res.status = 500
                  /\ f.res.audioUrl = Undefined /\ NoAudioFile
            /\ (f.response # Undefined /\ ~HasCandidates(f.response)) =>
                  f.pc = "done" /\ f.error = ErrCandidatos /\ f.res.status = 500
                  /\ f.res.audioUrl = Undefined /\ NoAudioFile
                  /\ NCalls(f.log) = 5
            /\ LacksAudio(f.response) =>
                  f.pc = "done" /\ f.error = ErrAudio /\ f.res.status = 500
                  /\ f.res.audioUrl = Undefined /\ NoAudioFile
                  /\ f.log[Len(f.log)] = Call(NCalls(f.log) - 1, "usable")

\* The first narration call returned a candidate with an image part only:
\* the request failed after that one call, its images written.
C15_Witness ==
    \E r \in Requests :
        /\ flow[r].pc = "done" /\ flow[r].stage = "audio"
        /\ flow[r].error = ErrAudio
        /\ flow[r].log = <<Call(0, "usable")>>
        /\ Len(flow[r].imageUrls) = 3

\* The image files a request has pushed to imageUrls.
ImagesOf(f) == { f.imageUrls[k] : k \in 1..Len(f.imageUrls) }

\* C16: nothing is rolled back. When /create-story-audio fails in the
\* narration stage after its images were written, the request is answered
\* 500 and every image file it wrote is still there; no step ever removes a
\* written file.
C16_NoRollback ==
    /\ [](\A r \in Requests :
             LET f == flow[r] IN
             /\ ImagesOf(f) \subseteq files
             /\ (f.pc = "done" /\ f.stage = "audio" /\ f.error # "") =>
                   /\ f.res.status = 500
                   /\ f.res.imageUrls = <<>>
                   /\ Len(f.imageUrls) >= 1)
    /\ [][files \subseteq files']_vars

\* A request failed in narration after five calls, its three images on disk.
C16_Witness ==
    \E r \in Requests :
        /\ flow[r].pc = "done" /\ flow[r].stage = "audio"
        /\ flow[r].res.status = 500
        /\ NCalls(flow[r].log) = 5
        /\ Cardinality(ImagesOf(flow[r]) \cap files) = 3

\* The text of the first part of a response, when it has one.
TextOf(response) ==
    IF /\ response # Undefined
       /\ HasCandidates(response)
       /\ ~PartsThrows(response)
       /\ FirstParts(response) # <<>>
       /\ FirstParts(response)[1].text.t = "string"
    THEN FirstParts(response)[1].text.s
    ELSE <<"no text">>

\* The array ["a","b",...] of n strings as a value.
LetterArray(n) == [k \in 1..n |-> Str(<<Letters[k]>>)]

\* What may stand before the fence: nothing, or prose without a "[".
Preambles == { <<>>, <<"o", "k", ":", "\n">> }

\* C17: a scene-prompt text that wraps a JSON array in a markdown fence
\* (three backquotes and json, the array, three backquotes), with no "["
\* before the array, is parsed to that array, and for an array with elements
\* the stage returns its first N elements in their order.
C17_FencedArray ==
    \A r \in Requests : \A n \in 0..MaxArray : \A pre \in Preambles :
        LET f == flow[r] IN
        (f.stage = "prompts" /\ TextOf(f.response) = pre \o Fenced(n)) =>
            /\ JSONParse(CleanedText(TextOf(f.response))).ok
            /\ JSONParse(CleanedText(TextOf(f.response))).val = Arr(LetterArray(n))
            /\ n > 0 =>
                  /\ f.pc = "prompts_done"
                  /\ f.imagePrompts =
                        LetterArray(IF n < f.numImages THEN n ELSE f.numImages)

\* A fenced array of more than three elements answered the scene-prompt call
\* of /create-story-audio: its first three elements are returned.
C17_Witness ==
    \E r \in Requests :
        /\ flow[r].stage = "prompts" /\ flow[r].pc = "prompts_done"
        /\ TextOf(flow[r].response) = Fenced(MaxArray)
        /\ flow[r].numImages = 3
        /\ flow[r].imagePrompts = <<Str(<<"a">>), Str(<<"b">>), Str(<<"c">>)>>

\* The payloads of the model with the bytes they encode, and the media types
\* with the rate they declare.
KnownPayloads ==
    { <<Str(<<"A", "A", "A", "A", "Q", "A", "=", "=">>), <<0, 0, 0, 64>>>>,
      <<Str(<<"A", "I", "D", "/", "f", "w", "=", "=">>), <<0, 128, 255, 127>>>>,
      <<Str(<<"/", "/", "8", "=">>), <<255, 255>>>>,
      <<Str(<<"A", "A", "B", "A">>), <<0, 0, 64>>>> }
KnownRates == { <<Str(Pcm), 24000>>, <<Str(Pcm16k), 16000>> }

\* The first part of a response that carries audio.
AudioPartOf(response) ==
    LET parts == FirstParts(response)
        k == CHOOSE k \in 1..Len(parts) :
                /\ parts[k].inlineData # Undefined
                /\ parts[k].inlineData.mimeType.s[1] = "audio/"
                /\ \A m \in 1..(k - 1) :
                      \/ parts[m].inlineData = Undefined
                      \/ parts[m].inlineData.mimeType.s[1] # "audio/"
    IN parts[k].inlineData

\* C18: the decoded payload of 2k bytes becomes exactly k samples, each the
\* signed 16-bit little-endian value s of its two bytes turned into
\* s / 32768, a number from -1 to 1 (the bytes of 0 and 16384 give 0 and
\* 0.5); the sample rate is the integer after rate= in the media type.
C18_PcmDecoding ==
    \A r \in Requests :
        LET f == flow[r] IN
        f.pc = "audio_encode" =>
            LET part == AudioPartOf(f.response) IN
            /\ \E known \in KnownPayloads : known[1] = part.data
            /\ \E known \in KnownRates : known[1] = part.mimeType
            /\ \A known \in KnownRates :
                  known[1] = part.mimeType => f.sampleRate = known[2]
            /\ \A known \in KnownPayloads :
                  known[1] = part.data =>
                     LET bytes == known[2] IN
                     /\ Len(f.channelData) = Len(bytes) \div 2
                     /\ \A k \in 1..Len(f.channelData) :
                           LET x == f.channelData[k] IN
                           /\ x.d = 32768
                           /\ x.n \in -32768..32767
                           /\ (x.n - (bytes[2 * k - 1] + 256 * bytes[2 * k])) % 65536 = 0
                           /\ -x.d <= x.n /\ x.n <= x.d
            /\ part.data = Str(<<"A", "A", "A", "A", "Q", "A", "=", "=">>) =>
                  /\ Len(f.channelData) = 2
                  /\ f.channelData[1].n = 0
                  /\ 2 * f.channelData[2].n = f.channelData[2].d

\* The payload of the bytes 00 80 FF 7F decoded: the two extreme samples,
\* -1 and 32767/32768, at 24000 Hz.
C18_Witness ==
    \E r \in Requests :
        /\ flow[r].pc = "audio_encode"
        /\ flow[r].sampleRate = 24000
        /\ flow[r].channelData = << [n |-> -32768, d |-> 32768], [n |-> 32767, d |-> 32768] >>

\* C19: when every remote call eventually returns or throws, a request that
\* has arrived is eventually answered with 400, 200 or 500, and no retry
\* loop of it makes more than 5 remote calls.
C19_Termination ==
    /\ [](\A r \in Requests : NCalls(flow[r].log) <= 5)
    /\ \A r \in {1} :
          (flow[r].pc # "idle") ~>
             (flow[r].pc = "done" /\ flow[r].res.status \in {400, 200, 500})

\* A request answered after the longest run: every loop but the last image
\* loop exhausted or delayed to its fifth call.
C19_Witness ==
    \E r \in Requests :
        /\ flow[r].pc = "done" /\ flow[r].res.status = 500
        /\ flow[r].stage = "audio" /\ NCalls(flow[r].log) = 5
        /\ flow[r].outcomes = <<"exhausted", "exhausted", "image">>

\* Five failed calls, each followed by the wait of its index.
FiveCallsFiveWaits ==
    << Call(0, "nothing"), Slept(0), Call(1, "nothing"), Slept(1),
       Call(2, "nothing"), Slept(2), Call(3, "nothing"), Slept(3),
       Call(4, "nothing"), Slept(4) >>

\* C20: a retry loop that exhausts because every call throws or returns no
\* candidate makes exactly 5 backoff waits, with the indices 0, 1, 2, 3, 4
\* in this order, one after each failed attempt; the wait of index 4 comes
\* after the last attempt and before the exhausted outcome is reported.
C20_FiveWaits ==
    \A r \in Requests :
        LET f == flow[r] IN
        /\ (f.pc \in LoopExits /\ AllNothing(f.log)) => f.log = FiveCallsFiveWaits
        /\ (f.pc = "done" /\ f.stage = "story" /\ f.error = ErrCuento /\ AllNothing(f.log)) =>
              f.log = FiveCallsFiveWaits
        /\ (f.pc \in InLoop /\ AllNothing(f.log) /\ NCalls(f.log) = 5) =>
              /\ Sleeping(f) /\ f.i = 4
              /\ f.log = FiveCallsFiveWaits
              /\ f.delay >= 16000
              /\ f.error = "" /\ f.res.status = 0
              /\ f.stage = "story" => ~Truthy(f.cuento)
              /\ f.stage = "prompts" => f.imagePrompts = <<>>
              /\ f.stage = "image" => Len(f.outcomes) = f.j

\* The narration loop left after five failed calls and five waits.
C20_Witness ==
    \E r \in Requests :
        /\ flow[r].pc = "audio_done"
        /\ flow[r].log = FiveCallsFiveWaits

====
